---------------------------- MODULE Spec2Model ----------------------------
(***************************************************************************)
(* A model of script.js, the browser client of ChatWithData: the upload    *)
(* handler with its FileReader callbacks, sendMessage with its simulated   *)
(* answer timer, parseCSV, displayDataAnalysis, handleQuickAction and      *)
(* generateCharts.                                                         *)
(*                                                                         *)
(* A JavaScript string is a sequence of one-character strings, so that     *)
(* split, trim, the quote scanner and the numeric tests are computed       *)
(* character by character as the code computes them.                       *)
(***************************************************************************)
EXTENDS Integers, Sequences, FiniteSets, TLC

VARIABLES
    uploadedFileName,   \* script.js:12, Null or Some(name)
    csvData,            \* script.js:13, Null or Some(rows)
    csvHeaders,         \* script.js:14, Null or Some(headers)
    messageInput,       \* script.js:8, the value of the input field
    chatWindow,         \* script.js:7, the children of the chat window, in order
    readers,            \* the FileReaders whose read has not completed yet
    timers,             \* the setTimeout callbacks that have not fired yet
    charts,             \* the Chart objects created, each with its canvas
    nextId,             \* the number of readers and timers created so far
    used,               \* the number of user events so far (bounds the model)
    last,               \* history: the last reader created, the last one loaded
    pc,                 \* the position of a function applied on its own
    arg,                \* the argument of that function
    ret                 \* its result

vars == <<uploadedFileName, csvData, csvHeaders, messageInput, chatWindow,
          readers, timers, charts, nextId, used, last, pc, arg, ret>>

uiVars == <<uploadedFileName, csvData, csvHeaders, messageInput, chatWindow,
            readers, timers, charts, nextId, used, last>>

----------------------------------------------------------------------------
(* JavaScript values *)

Null == [isNull |-> TRUE]
Some(x) == [isNull |-> FALSE, v |-> x]

QUOTE == "\""
COMMA == ","
NL == "\n"
SP == " "

\* The white space String.prototype.trim removes, as far as the alphabets
\* of this model go.
WhiteSpace == {" ", "\t", "\r", "\n"}

Min(a, b) == IF a < b THEN a ELSE b

SeqsUpTo(S, n) == UNION {[1..k -> S] : k \in 0..n}

RECURSIVE TrimStart(_)
TrimStart(s) ==
    IF s # <<>> /\ Head(s) \in WhiteSpace THEN TrimStart(Tail(s)) ELSE s

RECURSIVE TrimEnd(_)
TrimEnd(s) ==
    IF s # <<>> /\ s[Len(s)] \in WhiteSpace
    THEN TrimEnd(SubSeq(s, 1, Len(s) - 1))
    ELSE s

Trim(s) == TrimEnd(TrimStart(s))

\* String.prototype.split with a one-character separator: at least one piece.
RECURSIVE Split(_, _)
Split(s, sep) ==
    IF \A i \in 1..Len(s) : s[i] # sep
    THEN <<s>>
    ELSE LET i == CHOOSE k \in 1..Len(s) :
                      s[k] = sep /\ \A m \in 1..(k - 1) : s[m] # sep
         IN  <<SubSeq(s, 1, i - 1)>> \o Split(SubSeq(s, i + 1, Len(s)), sep)

\* script.js:124 with the trim lost: only lines of no character are dropped.
FilterLinesNoTrim(lines) == SelectSeq(lines, LAMBDA line : line # <<>>)

\* lines.filter(line => line.trim() !== ''), script.js:124.
FilterLines(lines) == SelectSeq(lines, LAMBDA line : Trim(line) # <<>>)

\* h.replace(/^"|"$/g, ''): a quote at the start is removed, and a quote at
\* the end of what follows the first match is removed.
StripQuotes(h) ==
    LET a == IF h # <<>> /\ Head(h) = QUOTE THEN Tail(h) ELSE h
    IN  IF a # <<>> /\ a[Len(a)] = QUOTE THEN SubSeq(a, 1, Len(a) - 1) ELSE a

ParseHeaders(line) ==
    LET pieces == Split(line, COMMA)
    IN  [i \in 1..Len(pieces) |-> StripQuotes(Trim(pieces[i]))]

----------------------------------------------------------------------------
(* parseCSV, script.js:123-163 *)

\* The body of the scanner's loop for one character (script.js:141-150).
ScanCharNoFlag(st, char) ==
    IF char = QUOTE
    THEN [st EXCEPT !.insideQuotes = ~st.insideQuotes]
    ELSE IF char = COMMA
    THEN [st EXCEPT !.row = Append(st.row, Trim(st.currentField)),
                    !.currentField = <<>>]
    ELSE [st EXCEPT !.currentField = Append(st.currentField, char)]

ScanChar(st, char) ==
    IF char = QUOTE
    THEN [st EXCEPT !.insideQuotes = ~st.insideQuotes]
    ELSE IF char = COMMA /\ ~st.insideQuotes
    THEN [st EXCEPT !.row = Append(st.row, Trim(st.currentField)),
                    !.currentField = <<>>]
    ELSE [st EXCEPT !.currentField = Append(st.currentField, char)]

RECURSIVE ScanFrom(_, _, _)
ScanFrom(line, j, st) ==
    IF j > Len(line) THEN st ELSE ScanFrom(line, j + 1, ScanChar(st, line[j]))

\* The fields of one data line (script.js:136-152): the quote flag starts
\* false, and the last field is pushed after the loop.
ScanLine(line) ==
    LET st == ScanFrom(line, 1,
                       [row |-> <<>>, currentField |-> <<>>, insideQuotes |-> FALSE])
    IN  Append(st.row, Trim(st.currentField))

\* script.js:155-159 without the slice: the row is padded only.
NormalizeRowPadOnly(row, n) ==
    [i \in 1..(IF Len(row) < n THEN n ELSE Len(row)) |->
        IF i <= Len(row) THEN row[i] ELSE <<>>]

\* script.js:155-159: pad with '' up to n cells, then slice(0, n).
NormalizeRow(row, n) ==
    [i \in 1..n |-> IF i <= Len(row) THEN row[i] ELSE <<>>]

EmptyError == "CSV file is empty"

ParseCSV(text) ==
    LET lines == FilterLines(Split(text, NL))
    IN  IF Len(lines) = 0
        THEN [ok |-> FALSE, error |-> EmptyError]
        ELSE LET headers == ParseHeaders(lines[1])
             IN  [ok |-> TRUE,
                  headers |-> headers,
                  data |-> [i \in 1..(Len(lines) - 1) |->
                               NormalizeRow(ScanLine(lines[i + 1]), Len(headers))]]

----------------------------------------------------------------------------
(* parseFloat, Number and isFinite on strings (script.js:296, 310) *)

Digits == {"0", "1", "2", "3", "4", "5", "6", "7", "8", "9"}
Signs == {"+", "-"}
ExpMarks == {"e", "E"}

DigitVal(c) ==
    CASE c = "0" -> 0 [] c = "1" -> 1 [] c = "2" -> 2 [] c = "3" -> 3
      [] c = "4" -> 4 [] c = "5" -> 5 [] c = "6" -> 6 [] c = "7" -> 7
      [] c = "8" -> 8 [] c = "9" -> 9

\* The automaton of StrDecimalLiteral without Infinity:
\*   sign? (digits ("." digits?)? | "." digits) (("e" | "E") sign? digits)?
\* Its states: "start", "sign", "int", "dot" (a point before any digit),
\* "frac" (after the point, a digit seen), "e", "esign", "exp", "dead".
Delta(q, c) ==
    CASE q = "start" ->
            (IF c \in Signs THEN "sign" ELSE IF c \in Digits THEN "int"
             ELSE IF c = "." THEN "dot" ELSE "dead")
      [] q = "sign" ->
            (IF c \in Digits THEN "int" ELSE IF c = "." THEN "dot" ELSE "dead")
      [] q = "int" ->
            (IF c \in Digits THEN "int" ELSE IF c = "." THEN "frac"
             ELSE IF c \in ExpMarks THEN "e" ELSE "dead")
      [] q = "dot" -> (IF c \in Digits THEN "frac" ELSE "dead")
      [] q = "frac" ->
            (IF c \in Digits THEN "frac" ELSE IF c \in ExpMarks THEN "e" ELSE "dead")
      [] q = "e" ->
            (IF c \in Signs THEN "esign" ELSE IF c \in Digits THEN "exp" ELSE "dead")
      [] q = "esign" -> (IF c \in Digits THEN "exp" ELSE "dead")
      [] q = "exp" -> (IF c \in Digits THEN "exp" ELSE "dead")
      [] OTHER -> "dead"

RECURSIVE RunFrom(_, _, _)
RunFrom(t, i, q) == IF i > Len(t) THEN q ELSE RunFrom(t, i + 1, Delta(q, t[i]))

IsDecimalLiteral(t) == RunFrom(t, 1, "start") \in {"int", "frac", "exp"}

\* parseFloat(s): leading white space is skipped and the longest prefix that
\* is a decimal literal is converted; NaN when no prefix is one.  The number
\* is kept as the literal it was read from.
RECURSIVE LongestLiteral(_, _)
LongestLiteral(t, k) ==
    IF k = 0 THEN 0
    ELSE IF IsDecimalLiteral(SubSeq(t, 1, k)) THEN k
    ELSE LongestLiteral(t, k - 1)

PrefixOf(t, k) == IF k = 0 THEN [nan |-> TRUE] ELSE [nan |-> FALSE, lit |-> SubSeq(t, 1, k)]

LongestPrefix(t) == PrefixOf(t, LongestLiteral(t, Len(t)))

ParseFloat(s) == LongestPrefix(TrimStart(s))

\* The parts of a decimal literal: its digits before the point, its digits
\* after the point, and its exponent.
Unsigned(t) == IF t # <<>> /\ Head(t) \in Signs THEN Tail(t) ELSE t

\* The place of the first character of u that is in S, Len(u) + 1 if none.
RECURSIVE FirstIn(_, _, _)
FirstIn(u, S, k) ==
    IF k > Len(u) \/ u[k] \in S THEN k ELSE FirstIn(u, S, k + 1)

RECURSIVE DecimalValue(_)
DecimalValue(ds) ==
    IF ds = <<>> THEN 0
    ELSE 10 * DecimalValue(SubSeq(ds, 1, Len(ds) - 1)) + DigitVal(ds[Len(ds)])

SignedValue(x) ==
    IF x = <<>> THEN 0
    ELSE IF Head(x) = "-" THEN 0 - DecimalValue(Tail(x))
    ELSE DecimalValue(Unsigned(x))

PartsAt(u, e, p) ==
    [int |-> SubSeq(u, 1, p - 1),
     frac |-> SubSeq(u, p + 1, e - 1),
     exponent |-> SignedValue(SubSeq(u, e + 1, Len(u)))]

PartsFrom(u, e) == PartsAt(u, e, FirstIn(SubSeq(u, 1, e - 1), {"."}, 1))

PartsOf(t) == PartsFrom(Unsigned(t), FirstIn(Unsigned(t), ExpMarks, 1))

AllZero(ds) == \A k \in 1..Len(ds) : ds[k] = "0"

IsZeroLiteral(t) == AllZero(PartsOf(t).int \o PartsOf(t).frac)

\* The digits of 2^1024 - 2^970, the least magnitude that rounds to Infinity:
\* 1.7976931348623158079e308.
OverflowDigits == <<1, 7, 9, 7, 6, 9, 3, 1, 3, 4, 8, 6, 2, 3, 1, 5, 8, 0, 7, 9>>
OverflowOrder == 308

\* a >= b for two digit sequences of the length of b, from place i on.
RECURSIVE DigitsAtLeast(_, _, _)
DigitsAtLeast(a, b, i) ==
    IF i > Len(b) THEN TRUE
    ELSE IF a[i] # b[i] THEN a[i] > b[i]
    ELSE DigitsAtLeast(a, b, i + 1)

\* The digits ds from place first on, as numbers, followed by zeros up to the
\* length of OverflowDigits.
SignificantDigits(ds, first) ==
    [i \in 1..Len(OverflowDigits) |->
        IF first + i - 1 <= Len(ds) THEN DigitVal(ds[first + i - 1]) ELSE 0]

\* The digits ds, intLen of them before the point, times 10^exponent: the
\* number is d.ddd * 10^order with d its first digit that is not zero.
IsFiniteFrom(ds, first, order) ==
    \/ first > Len(ds)
    \/ order < OverflowOrder
    \/ /\ order = OverflowOrder
       /\ ~DigitsAtLeast(SignificantDigits(ds, first), OverflowDigits, 1)

IsFiniteDigits(ds, first, intLen, exponent) ==
    IsFiniteFrom(ds, first, intLen - first + exponent)

IsFiniteParts(parts) ==
    IsFiniteDigits(parts.int \o parts.frac,
                   FirstIn(parts.int \o parts.frac, Digits \ {"0"}, 1),
                   Len(parts.int), parts.exponent)

\* Whether the literal converts to a finite double.
IsFiniteLiteral(t) == IsFiniteParts(PartsOf(t))

\* isFinite(value) on a string: Number(value) trims the string, converts the
\* empty string to 0 and a string that is a decimal literal as a whole to its
\* value, and anything else to NaN.  (Infinity, and the 0x, 0o and 0b forms,
\* need letters the alphabets of this model do not have.)
IsFiniteTrimmed(t) == t = <<>> \/ (IsDecimalLiteral(t) /\ IsFiniteLiteral(t))

IsFiniteString(s) == IsFiniteTrimmed(Trim(s))

\* script.js:296 with the isFinite test lost: a numeric prefix is enough.
IsNumericCellPrefix(value) ==
    value # <<>> /\ ~ParseFloat(value).nan

\* value && !isNaN(parseFloat(value)) && isFinite(value), script.js:296.
IsNumericCell(value) ==
    /\ value # <<>>
    /\ ~ParseFloat(value).nan
    /\ IsFiniteString(value)

----------------------------------------------------------------------------
(* numericCount > sampleSize * 0.7 in IEEE double arithmetic (script.js:301) *)

\* The double 0.7 is 6305039478318694 * 2^-53 (0x3FE6666666666666).  Its
\* 53-bit significand 0x16666666666666 in three limbs of 20 bits.
LimbBase == 2^20
Limb07High == 5734
Limb07Mid == 419430
Limb07Low == 419430
SignificandBits == 53

RECURSIVE BitLen(_)
BitLen(x) == IF x = 0 THEN 0 ELSE 1 + BitLen(x \div 2)

\* n * 0.7 rounded to the nearest double, ties to even, as <<high, mid, low>>
\* limbs of (n * 0.7) * 2^53.  Exact for 0 <= n < 2^10.
TimesPoint7(n) ==
    LET l0 == n * Limb07Low
        l1 == n * Limb07Mid + (l0 \div LimbBase)
        l2 == n * Limb07High + (l1 \div LimbBase)
        p0 == l0 % LimbBase
        p1 == l1 % LimbBase
        \* the bits of the product beyond the 53 a double keeps
        e == IF BitLen(l2) + 2 * 20 > SignificandBits
             THEN BitLen(l2) + 2 * 20 - SignificandBits ELSE 0
        r == p0 % (2^e)
        up == /\ e > 0
              /\ \/ 2 * r > 2^e
                 \/ 2 * r = 2^e /\ (p0 \div (2^e)) % 2 = 1
        q0 == p0 - r + (IF up THEN 2^e ELSE 0)
        q1 == p1 + (q0 \div LimbBase)
    IN  <<l2 + (q1 \div LimbBase), q1 % LimbBase, q0 % LimbBase>>

\* k > n * 0.7 for integers k and n: k * 2^53 against the limbs.
GreaterThanPoint7(k, n) ==
    LET t == TimesPoint7(n)
        kh == k * 2^(SignificandBits - 2 * 20)
    IN  kh > t[1]

----------------------------------------------------------------------------
(* generateCharts, script.js:279-443 *)

SampleCap == 100
MaxNumericCharts == 2
MaxChartPoints == 50
TopCategories == 10

\* A JavaScript number read from a cell: NaN, or the literal it was read from.
NaN == [nan |-> TRUE]
Num(lit) == [nan |-> FALSE, lit |-> lit]
Zero == Num(<<"0">>)

SampleSize(data) == Min(SampleCap, Len(data))

\* The loop of script.js:294-299.
NumericCount(data, index) ==
    Cardinality({i \in 1..SampleSize(data) : IsNumericCell(data[i][index])})

\* numericCount > sampleSize * 0.7, script.js:301.
IsOverThreshold(numericCount, sampleSize) ==
    GreaterThanPoint7(numericCount, sampleSize)

IsNumericColumn(data, index) ==
    IsOverThreshold(NumericCount(data, index), SampleSize(data))

Indices(headers) == [i \in 1..Len(headers) |-> i]

\* script.js:288-304, the columns as {header, index} in header order.
ColumnsAt(idx, headers) ==
    [k \in 1..Len(idx) |-> [header |-> headers[idx[k]], index |-> idx[k]]]

NumericColumns(data, headers) ==
    ColumnsAt(SelectSeq(Indices(headers), LAMBDA i : IsNumericColumn(data, i)), headers)

\* parseFloat(cell) || 0: NaN and zero give 0.
OrZero(v) == IF v.nan \/ IsZeroLiteral(v.lit) THEN Zero ELSE v

\* data.map(row => parseFloat(row[col.index]) || 0).filter(v => !isNaN(v)),
\* script.js:310.
SeriesValues(data, index) ==
    SelectSeq([i \in 1..Len(data) |-> OrZero(ParseFloat(data[i][index]))],
              LAMBDA v : ~v.nan)

\* script.js:376-384: the first column more than half of whose rows are not
\* empty, the first column when there is none.  (n * 0.5 is exact.)
CategoryIndex(data, headers) ==
    LET full == {i \in 1..Len(headers) :
                    2 * Cardinality({r \in 1..Len(data) :
                            data[r][i] # <<>> /\ Trim(data[r][i]) # <<>>}) > Len(data)}
    IN  IF full = {} THEN 1 ELSE CHOOSE i \in full : \A m \in full : i <= m

Unknown == <<"U", "n", "k", "n", "o", "w", "n">>

CategoryOf(row, index) == IF row[index] = <<>> THEN Unknown ELSE row[index]

\* The keys of categoryCounts in the order they were created (script.js:388-391).
RECURSIVE InsertionOrder(_, _, _)
InsertionOrder(data, index, r) ==
    IF r = 0 THEN <<>>
    ELSE LET before == InsertionOrder(data, index, r - 1)
             c == CategoryOf(data[r], index)
         IN  IF \E k \in 1..Len(before) : before[k] = c THEN before
             ELSE Append(before, c)

CountOf(data, index, c) ==
    Cardinality({r \in 1..Len(data) : CategoryOf(data[r], index) = c})

\* 2^32 - 2, the largest array index, digit by digit.
MaxArrayIndexDigits == <<4, 2, 9, 4, 9, 6, 7, 2, 9, 4>>

\* Whether a property key is an array index: the canonical decimal string of
\* an integer from 0 to 2^32 - 2.
IsArrayIndex(key) ==
    /\ key # <<>>
    /\ \A k \in 1..Len(key) : key[k] \in Digits
    /\ key[1] = "0" => Len(key) = 1
    /\ \/ Len(key) < Len(MaxArrayIndexDigits)
       \/ /\ Len(key) = Len(MaxArrayIndexDigits)
          /\ DigitsAtLeast(MaxArrayIndexDigits, [k \in 1..Len(key) |-> DigitVal(key[k])], 1)

\* Array indices in ascending numeric order: fewer digits first, then digit
\* by digit.
IndexBefore(a, b) ==
    \/ Len(a) < Len(b)
    \/ /\ Len(a) = Len(b)
       /\ a # b
       /\ DigitsAtLeast([k \in 1..Len(b) |-> DigitVal(b[k])],
                        [k \in 1..Len(a) |-> DigitVal(a[k])], 1)

RECURSIVE SortIndexKeys(_)
SortIndexKeys(keys) ==
    IF keys = {} THEN <<>>
    ELSE LET least == CHOOSE a \in keys : \A b \in keys \ {a} : IndexBefore(a, b)
         IN  <<least>> \o SortIndexKeys(keys \ {least})

\* The keys as Object.entries gives them: the array indices in ascending
\* numeric order, then the other keys in the order they were created.
OwnKeys(created) ==
    SortIndexKeys({created[k] : k \in {m \in 1..Len(created) : IsArrayIndex(created[m])}})
        \o SelectSeq(created, LAMBDA key : ~IsArrayIndex(key))

\* Array.prototype.sort((a, b) => b[1] - a[1]): by descending count, entries
\* of equal count in the order they had (the sort is stable).
RECURSIVE SortByCountDesc(_)
SortByCountDesc(entries) ==
    IF entries = <<>> THEN <<>>
    ELSE LET first == CHOOSE k \in 1..Len(entries) :
                        /\ \A m \in 1..Len(entries) : entries[m][2] <= entries[k][2]
                        /\ \A m \in 1..(k - 1) : entries[m][2] < entries[k][2]
         IN  <<entries[first]>>
                \o SortByCountDesc(SubSeq(entries, 1, first - 1)
                                   \o SubSeq(entries, first + 1, Len(entries)))

\* script.js:386-396.
Entries(keys, data, index) ==
    [k \in 1..Len(keys) |-> <<keys[k], CountOf(data, index, keys[k])>>]

FirstOf(sorted, n) == SubSeq(sorted, 1, Min(n, Len(sorted)))

SortedCategories(data, index) ==
    FirstOf(SortByCountDesc(Entries(OwnKeys(InsertionOrder(data, index, Len(data))),
                                    data, index)),
            TopCategories)

\* script.js:307-372: a line chart for each of the first two numeric columns.
LinePlans(shown, data) ==
    [k \in 1..Len(shown) |->
        [type |-> "line", header |-> shown[k].header,
         values |-> SeriesValues(data, shown[k].index)]]

\* script.js:375-440: a bar chart of the category column.
BarPlan(categoryIndex, data, headers) ==
    << [type |-> "bar", header |-> headers[categoryIndex],
        sortedCategories |-> SortedCategories(data, categoryIndex)] >>

PlansFor(numericColumns, data, headers) ==
    IF Len(numericColumns) > 0
    THEN LinePlans(SubSeq(numericColumns, 1, Min(MaxNumericCharts, Len(numericColumns))), data)
    ELSE BarPlan(CategoryIndex(data, headers), data, headers)

\* The charts generateCharts announces in its HTML, each with the closure of
\* the timer it schedules (script.js:321, 407); <<>> when it returns null at
\* script.js:280-282.
GenerateCharts(data, headers) ==
    IF Len(data) = 0 \/ Len(headers) = 0 THEN <<>>
    ELSE PlansFor(NumericColumns(data, headers), data, headers)

\* script.js:330 with the quotient rounded down.
SampleStepFloor(n) ==
    IF n \div MaxChartPoints = 0 THEN 1 ELSE n \div MaxChartPoints

\* Math.ceil(values.length / 50), script.js:330.
SampleStep(n) == (n + MaxChartPoints - 1) \div MaxChartPoints

\* The label `#${i + 1}` of the value at 0-based position i.
Label(i) == <<"#", i + 1>>

\* script.js:325-337: the values and labels a line chart shows.
\* The 0-based positions i = 0, step, 2 * step, ... below n.
RECURSIVE Picked(_, _, _)
Picked(i, step, n) == IF i >= n THEN <<>> ELSE <<i>> \o Picked(i + step, step, n)

SeriesAt(values, picked) ==
    [values |-> [k \in 1..Len(picked) |-> values[picked[k] + 1]],
     labels |-> [k \in 1..Len(picked) |-> Label(picked[k])]]

DisplaySeries(values) ==
    IF Len(values) > MaxChartPoints
    THEN SeriesAt(values, Picked(0, SampleStep(Len(values)), Len(values)))
    ELSE [values |-> values,
          labels |-> [i \in 1..Len(values) |-> Label(i - 1)]]

\* The Chart a chart timer creates (script.js:339-365, 410-436).
LineChart(header, series) ==
    [type |-> "line", label |-> header, labels |-> series.labels, data |-> series.values]

ChartOf(plan) ==
    IF plan.type = "line"
    THEN LineChart(plan.header, DisplaySeries(plan.values))
    ELSE [type |-> "bar", label |-> <<"C", "o", "u", "n", "t">>,
          labels |-> [k \in 1..Len(plan.sortedCategories) |-> plan.sortedCategories[k][1]],
          data |-> [k \in 1..Len(plan.sortedCategories) |-> plan.sortedCategories[k][2]]]

----------------------------------------------------------------------------
(* The state after construction (script.js:12-14, an empty chat window). *)

UIInit ==
    /\ uploadedFileName = Null
    /\ csvData = Null
    /\ csvHeaders = Null
    /\ messageInput = <<>>
    /\ chatWindow = <<>>
    /\ readers = {}
    /\ timers = {}
    /\ charts = {}
    /\ nextId = 0
    /\ used = 0
    /\ last = [selected |-> Null, loaded |-> Null]

NoCall == [fn |-> "none"]

----------------------------------------------------------------------------
(* Timers *)

AnalysisDelay == 500
AnswerDelay == 1000
ChartDelay == 100

\* A timer fires once its delay has passed: not before a timer set earlier
\* with a delay that is not longer.
CanFire(t) ==
    /\ t \in timers
    /\ \A u \in timers : u.id < t.id => u.delay > t.delay

\* The timers generateCharts sets (script.js:321, 407), numbered from id + 1.
ChartTimers(plans, id) ==
    {[id |-> id + k, kind |-> "chart", delay |-> ChartDelay, plan |-> plans[k]] :
        k \in 1..Len(plans)}

\* The callback of a chart timer (script.js:321-367, 407-438).  The canvas
\* it looks up is in the document by then: the message that holds it was
\* appended in the task that set the timer.
FireChartTimer(t) ==
    /\ CanFire(t)
    /\ t.kind = "chart"
    /\ charts' = charts \cup {[canvas |-> t.id, chart |-> ChartOf(t.plan)]}
    /\ timers' = timers \ {t}
    /\ UNCHANGED <<uploadedFileName, csvData, csvHeaders, messageInput, chatWindow,
                   readers, nextId, used, last, pc, arg, ret>>

----------------------------------------------------------------------------
(* The chat window (script.js:446-463, 229-230) *)

\* A text is kept as its template and the values interpolated into it.
ClassOf(sender) ==
    IF sender = "User" THEN "user-message"
    ELSE IF sender = "AI" THEN "ai-message"
    ELSE "system-message"

\* The div addMessageToChat creates (script.js:447-458).
MessageDiv(sender, text) == [class |-> ClassOf(sender), html |-> FALSE, text |-> text]

\* chatWindow.appendChild with the node put first.
PrependChild(chat, node) == <<node>> \o chat

\* chatWindow.appendChild(node), script.js:459 and 230.
AppendChild(chat, node) == Append(chat, node)

AddMessageToChat(chat, sender, text) == AppendChild(chat, MessageDiv(sender, text))

----------------------------------------------------------------------------
(* The upload handler and its FileReader callbacks (script.js:22-61) *)

\* The user's events (a file dialog closed, a question sent, a button
\* clicked) are counted, and the model stops taking them at MaxEvents.
MaxEvents == 2

\* The files the user can pick: a table with a short and a long row and a
\* numeric column, a table of one text cell, and a file of blank lines.
FileA == [name |-> "a.csv",
          text |-> <<"x", COMMA, "y", NL, "1", NL, "1", COMMA, "2", COMMA, "3">>]
FileB == [name |-> "b.csv", text |-> <<"c", NL, "a">>]
FileE == [name |-> "e.csv", text |-> <<SP, NL>>]
Files == {FileA, FileB, FileE}

Upload == <<uploadedFileName, csvData, csvHeaders>>

\* The change event with a file (script.js:25-56).
SelectFile(f) ==
    /\ used < MaxEvents
    /\ uploadedFileName' = Some(f.name)
    /\ readers' = readers \cup {[id |-> nextId + 1, file |-> f, before |-> Upload,
                                  alone |-> readers = {}]}
    /\ nextId' = nextId + 1
    /\ used' = used + 1
    /\ last' = [last EXCEPT !.selected = Some([id |-> nextId + 1, file |-> f])]
    /\ UNCHANGED <<csvData, csvHeaders, messageInput, chatWindow, timers, charts,
                   pc, arg, ret>>

\* The change event without a file (script.js:58-60).
SelectNothing ==
    /\ used < MaxEvents
    /\ chatWindow' = AddMessageToChat(chatWindow, "System", [tpl |-> "selectFirst"])
    /\ used' = used + 1
    /\ UNCHANGED <<uploadedFileName, csvData, csvHeaders, messageInput, readers,
                   timers, charts, nextId, last, pc, arg, ret>>

\* reader.onload with the text parsed (script.js:31-50).
Loaded(r, parsed) ==
    IF parsed.ok
    THEN /\ csvData' = Some(parsed.data)
         /\ csvHeaders' = Some(parsed.headers)
         /\ chatWindow' = AddMessageToChat(chatWindow, "System",
                              [tpl |-> "uploaded", fileName |-> uploadedFileName.v])
         /\ timers' = timers \cup
                {[id |-> nextId + 1, kind |-> "analysis", delay |-> AnalysisDelay]}
         /\ nextId' = nextId + 1
         /\ last' = [last EXCEPT !.loaded = Some(r)]
    ELSE /\ chatWindow' = AddMessageToChat(chatWindow, "System",
                              [tpl |-> "parseError", message |-> parsed.error])
         /\ UNCHANGED <<csvData, csvHeaders, timers, nextId, last>>

\* reader.onload that writes only for the file selected last.
LoadedIfCurrent(r, parsed) ==
    IF r.id = last.selected.v.id
    THEN Loaded(r, parsed)
    ELSE /\ last' = [last EXCEPT !.loaded = IF parsed.ok THEN Some(r) ELSE @]
         /\ UNCHANGED <<csvData, csvHeaders, chatWindow, timers, nextId>>

OnLoadIfCurrent(r) ==
    /\ r \in readers
    /\ readers' = readers \ {r}
    /\ LoadedIfCurrent(r, ParseCSV(r.file.text))
    /\ UNCHANGED <<uploadedFileName, messageInput, charts, used, pc, arg, ret>>

\* reader.onload (script.js:31-50).
OnLoad(r) ==
    /\ r \in readers
    /\ readers' = readers \ {r}
    /\ Loaded(r, ParseCSV(r.file.text))
    /\ UNCHANGED <<uploadedFileName, messageInput, charts, used, pc, arg, ret>>

\* reader.onerror (script.js:52-54).
OnError(r) ==
    /\ r \in readers
    /\ readers' = readers \ {r}
    /\ chatWindow' = AddMessageToChat(chatWindow, "System", [tpl |-> "readError"])
    /\ UNCHANGED <<uploadedFileName, csvData, csvHeaders, messageInput, timers,
                   charts, nextId, used, last, pc, arg, ret>>

----------------------------------------------------------------------------
(* displayDataAnalysis and handleQuickAction (script.js:166-276) *)

PreviewRows == 5

Empty == <<"(", "e", "m", "p", "t", "y", ")">>
NotAvailable == <<"N", "/", "A">>

\* cell || '(empty)', script.js:199.
PreviewCell(cell) == IF cell = <<>> THEN Empty ELSE cell

Preview(data) ==
    [i \in 1..Min(PreviewRows, Len(data)) |->
        [j \in 1..Len(data[i]) |-> PreviewCell(data[i][j])]]

\* The titles of the charts in the HTML generateCharts returns.
ChartTitles(plans) ==
    [k \in 1..Len(plans) |-> [type |-> plans[k].type, header |-> plans[k].header]]

\* The message div of script.js:173-230, with the closure (data, headers) of
\* the listeners of its four buttons (script.js:233-238).
AnalysisDiv(fileName, data, headers, plans) ==
    [class |-> "ai-message", html |-> TRUE,
     text |-> [tpl |-> "analysis", fileName |-> fileName,
               rowCount |-> Len(data), colCount |-> Len(headers),
               headers |-> headers, preview |-> Preview(data),
               charts |-> ChartTitles(plans)],
     data |-> data, headers |-> headers]

Analysed(t, data, headers, plans) ==
    /\ chatWindow' = AppendChild(chatWindow,
                                 AnalysisDiv(uploadedFileName, data, headers, plans))
    /\ timers' = (timers \ {t}) \cup ChartTimers(plans, nextId)
    /\ nextId' = nextId + Len(plans)

\* displayDataAnalysis(data, headers), script.js:166-251.
DisplayDataAnalysis(t, data, headers) ==
    IF Len(data) = 0
    THEN /\ chatWindow' = AddMessageToChat(chatWindow, "System", [tpl |-> "dataEmpty"])
         /\ timers' = timers \ {t}
         /\ UNCHANGED nextId
    ELSE Analysed(t, data, headers, GenerateCharts(data, headers))

\* The timer of script.js:42-44: the analysis of the dataset of that moment.
FireAnalysisTimer(t) ==
    /\ CanFire(t)
    /\ t.kind = "analysis"
    /\ DisplayDataAnalysis(t, csvData.v, csvHeaders.v)
    /\ UNCHANGED <<uploadedFileName, csvData, csvHeaders, messageInput, readers,
                   charts, used, last, pc, arg, ret>>

QuickActions == {"example1", "example2", "example3", "example4"}

\* headers[i] || 'N/A', script.js:262.
OrNotAvailable(h) == IF h = <<>> THEN NotAvailable ELSE h

\* handleQuickAction's response (script.js:257-272).
QuickResponse(action, data, headers) ==
    CASE action = "example1" ->
            [tpl |-> "example1", rows |-> Len(data), columns |-> Len(headers)]
      [] action = "example2" ->
            [tpl |-> "example2", first |-> OrNotAvailable(headers[1]),
             last |-> OrNotAvailable(headers[Len(headers)])]
      [] action = "example3" -> [tpl |-> "example3", records |-> Len(data)]
      [] action = "example4" -> [tpl |-> "example4", names |-> headers]
      [] OTHER -> [tpl |-> "unknownAction", action |-> action]

\* A click on a quick-action button of the analysis message at place i
\* (script.js:235-238, 254-276).
ClickQuickAction(i, action) ==
    /\ used < MaxEvents
    /\ i \in 1..Len(chatWindow)
    /\ chatWindow[i].html
    /\ chatWindow' = AddMessageToChat(chatWindow, "AI",
                         QuickResponse(action, chatWindow[i].data, chatWindow[i].headers))
    /\ used' = used + 1
    /\ UNCHANGED <<uploadedFileName, csvData, csvHeaders, messageInput, readers,
                   timers, charts, nextId, last, pc, arg, ret>>

----------------------------------------------------------------------------
(* sendMessage and its answer timer (script.js:76-120) *)

UpperCase == <<"A", "B", "C", "D", "E", "F", "G", "H", "I", "J", "K", "L", "M",
               "N", "O", "P", "Q", "R", "S", "T", "U", "V", "W", "X", "Y", "Z">>
LowerCase == <<"a", "b", "c", "d", "e", "f", "g", "h", "i", "j", "k", "l", "m",
               "n", "o", "p", "q", "r", "s", "t", "u", "v", "w", "x", "y", "z">>

LowerChar(c) ==
    IF \E k \in 1..Len(UpperCase) : UpperCase[k] = c
    THEN LowerCase[CHOOSE k \in 1..Len(UpperCase) : UpperCase[k] = c]
    ELSE c

ToLowerCase(q) == [k \in 1..Len(q) |-> LowerChar(q[k])]

Includes(q, sub) ==
    \E k \in 0..(Len(q) - Len(sub)) : SubSeq(q, k + 1, k + Len(sub)) = sub

KeyRow == <<"r", "o", "w">>
KeyRows == <<"r", "o", "w", "s">>
KeyHowManyRows == <<"h", "o", "w", " ", "m", "a", "n", "y", " ", "r", "o", "w", "s">>
KeyColumn == <<"c", "o", "l", "u", "m", "n">>
KeyColumns == <<"c", "o", "l", "u", "m", "n", "s">>
KeyHowManyColumns ==
    <<"h", "o", "w", " ", "m", "a", "n", "y", " ", "c", "o", "l", "u", "m", "n", "s">>
KeyColumnName == <<"c", "o", "l", "u", "m", "n", " ", "n", "a", "m", "e">>
KeyField == <<"f", "i", "e", "l", "d">>
KeyHeaders == <<"h", "e", "a", "d", "e", "r", "s">>

\* The keyword branches of script.js:103-111.
AnswerFor(lowerQuestion, data, headers) ==
    IF Includes(lowerQuestion, KeyRow) \/ Includes(lowerQuestion, KeyRows)
        \/ Includes(lowerQuestion, KeyHowManyRows)
    THEN [kind |-> "rows", rows |-> Len(data)]
    ELSE IF Includes(lowerQuestion, KeyColumn) \/ Includes(lowerQuestion, KeyColumns)
            \/ Includes(lowerQuestion, KeyHowManyColumns)
    THEN [kind |-> "columns", count |-> Len(headers), names |-> headers]
    ELSE IF Includes(lowerQuestion, KeyColumnName) \/ Includes(lowerQuestion, KeyField)
            \/ Includes(lowerQuestion, KeyHeaders)
    THEN [kind |-> "columnNames", names |-> headers]
    ELSE [kind |-> "sample"]

\* aiResponse, script.js:98-114.
AiResponse(question) ==
    [tpl |-> "answer", question |-> question,
     answer |-> IF ~csvData.isNull /\ ~csvHeaders.isNull
                THEN AnswerFor(ToLowerCase(question), csvData.v, csvHeaders.v)
                ELSE [kind |-> "uploadFirst"]]

\* The questions the user types: a blank one, one with a keyword, and one
\* without.
Questions ==
    { <<SP, SP>>,
      <<SP, "R", "o", "w", "s", "?">>,
      <<"h", "i">> }

\* sendMessage() without the test of uploadedFileName (script.js:79-82).
SentUnguarded(typed, question) ==
    IF question # <<>>
    THEN /\ chatWindow' = AddMessageToChat(chatWindow, "User",
                              [tpl |-> "text", value |-> question])
         /\ messageInput' = <<>>
         /\ timers' = timers \cup {[id |-> nextId + 1, kind |-> "answer",
                                    delay |-> AnswerDelay, question |-> question]}
         /\ nextId' = nextId + 1
    ELSE /\ messageInput' = typed
         /\ UNCHANGED <<chatWindow, timers, nextId>>

\* sendMessage() with the trimmed question (script.js:79-119), typed being
\* the value of the input field.
Sent(typed, question) ==
    IF uploadedFileName.isNull
    THEN /\ chatWindow' = AddMessageToChat(chatWindow, "System", [tpl |-> "uploadFirst"])
         /\ messageInput' = typed
         /\ UNCHANGED <<timers, nextId>>
    ELSE IF question # <<>>
    THEN /\ chatWindow' = AddMessageToChat(chatWindow, "User",
                              [tpl |-> "text", value |-> question])
         /\ messageInput' = <<>>
         /\ timers' = timers \cup {[id |-> nextId + 1, kind |-> "answer",
                                    delay |-> AnswerDelay, question |-> question]}
         /\ nextId' = nextId + 1
    ELSE /\ messageInput' = typed
         /\ UNCHANGED <<chatWindow, timers, nextId>>

\* The user types q into the input field, then clicks the send button or
\* presses Enter (script.js:64-73).
SendMessage(q) ==
    /\ used < MaxEvents
    /\ Sent(q, Trim(q))
    /\ used' = used + 1
    /\ UNCHANGED <<uploadedFileName, csvData, csvHeaders, readers, charts, last,
                   pc, arg, ret>>

\* The timer of script.js:97-117.
FireAnswerTimer(t) ==
    /\ CanFire(t)
    /\ t.kind = "answer"
    /\ chatWindow' = AddMessageToChat(chatWindow, "AI", AiResponse(t.question))
    /\ timers' = timers \ {t}
    /\ UNCHANGED <<uploadedFileName, csvData, csvHeaders, messageInput, readers,
                   charts, nextId, used, last, pc, arg, ret>>

----------------------------------------------------------------------------
(* The client *)

Init ==
    /\ UIInit
    /\ pc = "idle"
    /\ arg = NoCall
    /\ ret = NoCall

Next ==
    \/ \E f \in Files : SelectFile(f)
    \/ SelectNothing
    \/ \E r \in readers : OnLoad(r)
    \/ \E r \in readers : OnError(r)
    \/ \E q \in Questions : SendMessage(q)
    \/ \E t \in timers : FireAnalysisTimer(t)
    \/ \E t \in timers : FireAnswerTimer(t)
    \/ \E t \in timers : FireChartTimer(t)
    \/ \E i \in 1..Len(chatWindow), a \in QuickActions : ClickQuickAction(i, a)

Spec == Init /\ [][Next]_vars

----------------------------------------------------------------------------
(* The dataset of the client *)

\* C1: whenever the current dataset (csvData, csvHeaders) is set, every row
\* of csvData has exactly csvHeaders.length cells.
C1_RowLength ==
    (~csvData.isNull /\ ~csvHeaders.isNull) =>
        \A i \in 1..Len(csvData.v) : Len(csvData.v[i]) = Len(csvHeaders.v)

\* The dataset of a.csv: the short row padded with an empty string, the long
\* row cut to two cells.
C1_Witness ==
    /\ csvHeaders = Some(<< <<"x">>, <<"y">> >>)
    /\ csvData = Some(<< << <<"1">>, <<>> >>, << <<"1">>, <<"2">> >> >>)

\* The last message of the chat window after the step, when the step added one.
Added(tpls) ==
    /\ Len(chatWindow') = Len(chatWindow) + 1
    /\ chatWindow'[Len(chatWindow')].text.tpl \in tpls

\* C3: when an upload attempt fails (parseCSV throws, or the read fails),
\* the upload state (uploadedFileName, csvData, csvHeaders) after the failure
\* equals the state before the file was selected, for an attempt no other
\* attempt overlaps; and while no upload has succeeded and none is being
\* read, no question is accepted as a User message.
C3_FailureKeepsNothing ==
    /\ [][\A r \in readers :
             (/\ r \notin readers'
              /\ Added({"parseError", "readError"})
              /\ r.alone
              /\ last.selected.v.id = r.id) => Upload' = r.before]_vars
    /\ [][(readers = {} /\ last.loaded.isNull /\ Len(chatWindow') > Len(chatWindow)) =>
             chatWindow'[Len(chatWindow')].class # "user-message"]_vars

\* The table parseCSV returns for each file of the model.
Parsed == [f \in Files |-> ParseCSV(f.text)]

\* C4: the dataset slot holds the table of the file whose load callback ran
\* last (of those that parsed), whichever file was selected last, while
\* uploadedFileName holds the name of the file selected last.
C4_LastWriteWins ==
    /\ uploadedFileName =
           IF last.selected.isNull THEN Null ELSE Some(last.selected.v.file.name)
    /\ IF last.loaded.isNull
       THEN csvData = Null /\ csvHeaders = Null
       ELSE /\ csvData = Some(Parsed[last.loaded.v.file].data)
            /\ csvHeaders = Some(Parsed[last.loaded.v.file].headers)

\* a.csv then b.csv selected, both loaded, a.csv's callback last: the slot
\* holds a.csv's table under b.csv's name.
C4_Witness ==
    /\ used = 2
    /\ readers = {}
    /\ last.selected = Some([id |-> 2, file |-> FileB])
    /\ ~last.loaded.isNull
    /\ last.loaded.v.id = 1
    /\ Len(chatWindow) >= 2
    /\ chatWindow[1].text.tpl = "uploaded"
    /\ chatWindow[2].text.tpl = "uploaded"
    /\ uploadedFileName = Some(FileB.name)
    /\ csvData = Some(Parsed[FileA].data)
    /\ csvHeaders = Some(Parsed[FileA].headers)
    /\ csvData # Some(Parsed[FileB].data)

\* C5: the chat transcript is append-only: each step leaves the messages
\* there were in place and unchanged, and adds new ones only at the end.
C5_AppendOnly ==
    [][/\ Len(chatWindow') >= Len(chatWindow)
       /\ SubSeq(chatWindow', 1, Len(chatWindow)) = chatWindow]_vars

\* A transcript with a System, an analysis, a User and an AI message.
C5_Witness ==
    /\ Len(chatWindow) = 4
    /\ chatWindow[1].class = "system-message"
    /\ chatWindow[2].html
    /\ chatWindow[3].class = "user-message"
    /\ chatWindow[4].class = "ai-message"
    /\ ~chatWindow[4].html

----------------------------------------------------------------------------
(* The question flow *)

\* An analysis timer can fire: the state predicate that
\* ENABLED <<\E t \in timers : FireAnalysisTimer(t)>>_vars is, the callback
\* of a due timer always being able to run and always removing its timer.
AnalysisDue == \E t \in timers : CanFire(t) /\ t.kind = "analysis"

\* The browser runs the callback of every timer that is due: weak fairness
\* of the three timer callbacks.  For the analysis timer, WF_vars(A) is
\* written as what it abbreviates, []<>~ENABLED <<A>>_vars \/ []<><<A>>_vars,
\* with AnalysisDue for the ENABLED.
TimersFire ==
    /\ WF_vars(\E t \in timers : FireAnswerTimer(t))
    /\ WF_vars(\E t \in timers : FireChartTimer(t))
    /\ \/ []<>(~AnalysisDue)
       \/ []<><<\E t \in timers : FireAnalysisTimer(t)>>_vars

SpecFair == Spec /\ TimersFire

\* The places of the User messages, and of the simulated answers, in the
\* transcript.
UserMessages == {i \in 1..Len(chatWindow) : chatWindow[i].class = "user-message"}
Answers ==
    {i \in 1..Len(chatWindow) :
        chatWindow[i].class = "ai-message" /\ chatWindow[i].text.tpl = "answer"}

\* What a step that is the call sendMessage() with q typed does.
SendsOnce(q) ==
    IF ~uploadedFileName.isNull /\ Trim(q) # <<>>
    THEN /\ Len(chatWindow') = Len(chatWindow) + 1
         /\ SubSeq(chatWindow', 1, Len(chatWindow)) = chatWindow
         /\ chatWindow'[Len(chatWindow')].class = "user-message"
         /\ chatWindow'[Len(chatWindow')].text = [tpl |-> "text", value |-> Trim(q)]
         /\ timers \subseteq timers'
         /\ Cardinality(timers' \ timers) = 1
         /\ \A t \in timers' \ timers :
               t.kind = "answer" /\ t.delay = AnswerDelay /\ t.question = Trim(q)
    ELSE /\ timers' = timers
         /\ \A i \in 1..Len(chatWindow') :
               chatWindow'[i].class = "user-message" => i \in UserMessages

\* C12: every call of sendMessage with a non-empty trimmed question while a
\* file name is set appends exactly one User message and schedules exactly
\* one answer timer; a call with an empty question or with no file name
\* appends no User message and schedules nothing; the simulated answers
\* never outnumber the User messages, and with the timers firing every User
\* message gets its answer, so that the two numbers are equal again and
\* again.
C12_QuestionFlow ==
    /\ [][\A q \in Questions : SendMessage(q) => SendsOnce(q)]_vars
    /\ [](Cardinality(Answers) <= Cardinality(UserMessages))
    /\ \A n \in 1..MaxEvents :
          (Cardinality(UserMessages) >= n) ~> (Cardinality(Answers) >= n)
    /\ []<>(Cardinality(Answers) = Cardinality(UserMessages))

\* A question has been sent and answered, and the input field cleared.
C12_Witness ==
    /\ Cardinality(UserMessages) = 1
    /\ Cardinality(Answers) = 1
    /\ \E i \in UserMessages, j \in Answers :
          /\ i < j
          /\ chatWindow[j].text.question = chatWindow[i].text.value
    /\ messageInput = <<>>
    /\ \A t \in timers : t.kind # "answer"

----------------------------------------------------------------------------
(* parseCSV applied on its own to every text of a bounded family. *)

MaxTextLen == 4
MaxLineLen == 6
MaxPairLen == 2

TextAlphabet == {NL, SP, COMMA, QUOTE, "x"}
LineAlphabet == {QUOTE, COMMA, SP, "1"}

\* The data lines parseCSV keeps: not blank after trimming.
DataLines(n) == {l \in SeqsUpTo(LineAlphabet, n) : Trim(l) # <<>>}

\* A header line of n + 1 empty columns: no row of n characters is longer.
WideHeader(n) == [i \in 1..n |-> COMMA]

JoinLines(header, lines) ==
    LET RECURSIVE Join(_)
        Join(k) == IF k > Len(lines) THEN <<>>
                   ELSE <<NL>> \o lines[k] \o Join(k + 1)
    IN  header \o Join(1)

ExampleHeader == <<"a", COMMA, "b">>
ExampleLines ==
    { << <<QUOTE, "1", COMMA, "2", QUOTE, COMMA, "3">> >>,
      << <<"1", COMMA, "2">>, <<"3", COMMA, "4">> >>,
      << <<QUOTE, "1", COMMA, "2">>, <<"3", COMMA, "4">> >> }

ParseArgs ==
    {[fn |-> "parseCSV", kind |-> "text", text |-> t] :
        t \in SeqsUpTo(TextAlphabet, MaxTextLen)}
    \cup
    {[fn |-> "parseCSV", kind |-> "rows", text |-> JoinLines(WideHeader(MaxLineLen), ls),
      header |-> WideHeader(MaxLineLen), lines |-> ls] :
        ls \in {<<l>> : l \in DataLines(MaxLineLen)}
              \cup {<<l1, l2>> : l1 \in DataLines(MaxPairLen), l2 \in DataLines(MaxPairLen)}}
    \cup
    {[fn |-> "parseCSV", kind |-> "rows", text |-> JoinLines(ExampleHeader, ls),
      header |-> ExampleHeader, lines |-> ls] : ls \in ExampleLines}

InitParse ==
    /\ UIInit
    /\ pc = "ready"
    /\ arg \in ParseArgs
    /\ ret = NoCall

ApplyParseCSV ==
    /\ pc = "ready"
    /\ arg.fn = "parseCSV"
    /\ ret' = ParseCSV(arg.text)
    /\ pc' = "done"
    /\ UNCHANGED <<arg, uiVars>>

NextParse == ApplyParseCSV

SpecParse == InitParse /\ [][NextParse]_vars

ParseDone == pc = "done" /\ arg.fn = "parseCSV"

----------------------------------------------------------------------------
(* C2 *)

\* No line of the text is non-empty after trimming: the text holds nothing
\* but white space and line breaks.
NoUsableLine(text) == \A i \in 1..Len(text) : text[i] \in WhiteSpace

\* The number of lines with a character that is not white space, counted in
\* one pass over the text.
RECURSIVE CountUsable(_, _, _)
CountUsable(text, i, seen) ==
    IF i > Len(text) THEN (IF seen THEN 1 ELSE 0)
    ELSE IF text[i] = NL
         THEN (IF seen THEN 1 ELSE 0) + CountUsable(text, i + 1, FALSE)
         ELSE CountUsable(text, i + 1, seen \/ text[i] \notin WhiteSpace)

\* C2: parseCSV fails with the empty-input error exactly when the text has
\* no line that is non-empty after trimming; every other text is parsed, to
\* one row per usable line after the first, so that a text of a header line
\* alone gives a table of zero rows.
C2_EmptyInputError ==
    ParseDone =>
        /\ (~ret.ok) <=> NoUsableLine(arg.text)
        /\ (~ret.ok) => ret.error = EmptyError
        /\ ret.ok => Len(ret.data) = CountUsable(arg.text, 1, FALSE) - 1

\* A text of blank lines only has failed with the empty-input error.
C2_Witness ==
    /\ ParseDone
    /\ arg.text = <<SP, NL, SP>>
    /\ ~ret.ok
    /\ ret.error = EmptyError

----------------------------------------------------------------------------
(* C6 *)

QuotesBefore(line, j) == Cardinality({m \in 1..(j - 1) : line[m] = QUOTE})

\* The commas preceded on the line by an even number of double quotes.
CutsOf(line) ==
    {j \in 1..Len(line) : line[j] = COMMA /\ QuotesBefore(line, j) % 2 = 0}

DropQuotes(s) == SelectSeq(s, LAMBDA c : c # QUOTE)

\* The pieces of the line between two consecutive cuts, each without its
\* double quotes and trimmed.
FieldsByCuts(line) ==
    LET cuts == CutsOf(line)
        \* the k-th cut, the line's ends being cuts 0 and Cardinality(cuts) + 1
        Cut(k) == IF k = 0 THEN 0
                  ELSE IF k > Cardinality(cuts) THEN Len(line) + 1
                  ELSE CHOOSE j \in cuts : Cardinality({c \in cuts : c < j}) = k - 1
    IN  [k \in 1..(Cardinality(cuts) + 1) |->
            Trim(DropQuotes(SubSeq(line, Cut(k - 1) + 1, Cut(k) - 1)))]

ColumnsOf(header) == Cardinality({j \in 1..Len(header) : header[j] = COMMA}) + 1

\* The first n of the fields, followed by empty cells when they are fewer.
FirstCells(fields, n) ==
    SubSeq(fields, 1, Min(n, Len(fields)))
        \o [i \in 1..(n - Min(n, Len(fields))) |-> <<>>]

\* C6: every data line is split only at the commas preceded on that line by
\* an even number of double quotes, every double quote is dropped and every
\* field is trimmed; the quote flag starts false on every line, so that each
\* line's row depends on that line alone.
C6_QuoteScanner ==
    (ParseDone /\ arg.kind = "rows") =>
        /\ ret.ok
        /\ ret.data = [i \in 1..Len(arg.lines) |->
                          FirstCells(FieldsByCuts(arg.lines[i]), ColumnsOf(arg.header))]

\* The line "1,2",3 under the headers a,b has given the row ["1,2", "3"].
C6_Witness ==
    /\ ParseDone /\ arg.kind = "rows"
    /\ arg.header = ExampleHeader
    /\ arg.lines = << <<QUOTE, "1", COMMA, "2", QUOTE, COMMA, "3">> >>
    /\ ret.ok
    /\ ret.headers = << <<"a">>, <<"b">> >>
    /\ ret.data = << << <<"1", COMMA, "2">>, <<"3">> >> >>

----------------------------------------------------------------------------
(* C11 *)

\* The first line of the text with a character that is not white space.
FirstUsableLine(text) ==
    LET lines == Split(text, NL)
        k == CHOOSE i \in 1..Len(lines) :
                 Trim(lines[i]) # <<>> /\ \A m \in 1..(i - 1) : Trim(lines[m]) = <<>>
    IN  lines[k]

\* A field with its leading and its trailing quote removed when it has
\* both, and unchanged when it has a quote at one end only or at neither.
StripPair(h) ==
    IF Len(h) >= 2 /\ h[1] = QUOTE /\ h[Len(h)] = QUOTE
    THEN SubSeq(h, 2, Len(h) - 1)
    ELSE h

\* The header fields that answer a trimmed piece: the piece with its pair of
\* quotes removed; for the piece of one quote alone, which is its own first
\* and last character, the empty field as well.
HeaderFieldsFor(h) ==
    IF h = <<QUOTE>> THEN {h, <<>>} ELSE {StripPair(h)}

\* C11: each header field is the trimmed comma-split piece of the first
\* non-blank line, with one leading and one trailing double quote removed
\* only if both are present: a piece with a quote at one end only is kept
\* unchanged.
C11_HeaderQuotePair ==
    (ParseDone /\ ret.ok) =>
        LET pieces == Split(FirstUsableLine(arg.text), COMMA)
        IN  /\ Len(ret.headers) = Len(pieces)
            /\ \A i \in 1..Len(pieces) :
                  ret.headers[i] \in HeaderFieldsFor(Trim(pieces[i]))

----------------------------------------------------------------------------
(* generateCharts applied on its own to the tables of bounded families, and *)
(* the chart timers it sets.                                                *)

MaxRows == 120
MaxCellLen == 4
MaxSmallRows == 4
MaxWideRows == 2

DigitChars == <<"0", "1", "2", "3", "4", "5", "6", "7", "8", "9">>

RECURSIVE DecimalString(_)
DecimalString(i) ==
    IF i < 10 THEN <<DigitChars[i + 1]>>
    ELSE Append(DecimalString(i \div 10), DigitChars[(i % 10) + 1])

\* One column of n rows, k of them numeric: the first k rows, or (in a table
\* of more rows than are sampled) the last k.
\* The numeric cell of row i is the decimal string of i.
TallData(n, k, atEnd) ==
    [i \in 1..n |->
        << IF (~atEnd /\ i <= k) \/ (atEnd /\ i > n - k)
           THEN DecimalString(i) ELSE <<"a">> >>]

CellAlphabet == {"3", ".", "-", "e", "a", SP}

\* The cells parseCSV produces are trimmed.
Cells(n) == {c \in SeqsUpTo(CellAlphabet, n) : Trim(c) = c}
ExampleCells == { <<"3", "a", "b", "c">>, <<"3", "e", "3", "0", "7">>,
                  <<"3", "e", "3", "0", "8">> }

SmallCells == { <<>>, <<"1">>, <<"2">>, <<"1", "0">>, <<"a">>, <<"b">> }
WideCells == { <<>>, <<"1">>, <<"a">> }

OneHeader == << <<"v">> >>
WideHeaders == << <<"h", "1">>, <<"h", "2">>, <<"h", "3">> >>

ChartArgs ==
    {[fn |-> "generateCharts", kind |-> "tall", n |-> x[1], k |-> x[2], atEnd |-> x[3],
      headers |-> OneHeader, data |-> TallData(x[1], x[2], x[3])] :
        x \in {y \in (1..MaxRows) \X (0..MaxRows) \X BOOLEAN :
                  y[2] <= y[1] /\ (y[3] => y[1] > SampleCap)}}
    \cup
    {[fn |-> "generateCharts", kind |-> "cell", headers |-> OneHeader, data |-> << <<c>> >>] :
        c \in Cells(MaxCellLen) \cup ExampleCells}
    \cup
    {[fn |-> "generateCharts", kind |-> "small", headers |-> OneHeader,
      data |-> [i \in 1..Len(col) |-> <<col[i]>>]] :
        col \in SeqsUpTo(SmallCells, MaxSmallRows)}
    \cup
    {[fn |-> "generateCharts", kind |-> "wide", headers |-> WideHeaders, data |-> d] :
        d \in SeqsUpTo([1..Len(WideHeaders) -> WideCells], MaxWideRows)}

InitCharts ==
    /\ UIInit
    /\ pc = "ready"
    /\ arg \in ChartArgs
    /\ ret = NoCall

ApplyGenerateCharts ==
    /\ pc = "ready"
    /\ arg.fn = "generateCharts"
    /\ ret' = [fn |-> "generateCharts", plans |-> GenerateCharts(arg.data, arg.headers)]
    /\ timers' = timers \cup ChartTimers(ret'.plans, nextId)
    /\ nextId' = nextId + Len(ret'.plans)
    /\ pc' = "done"
    /\ UNCHANGED <<uploadedFileName, csvData, csvHeaders, messageInput, chatWindow,
                   readers, charts, used, last, arg>>

NextCharts ==
    \/ ApplyGenerateCharts
    \/ \E t \in timers : FireChartTimer(t)

SpecCharts == InitCharts /\ [][NextCharts]_vars

ChartsDone == pc = "done" /\ arg.fn = "generateCharts"

----------------------------------------------------------------------------
(* C7 *)

\* The numeric cells among the first min(100, n) rows of a tall table.
NumericInSample(n, k, atEnd) ==
    IF atEnd
    THEN (IF Min(100, n) > n - k THEN Min(100, n) - (n - k) ELSE 0)
    ELSE Min(k, Min(100, n))

\* C7: a column is classified Numeric exactly when the numeric cells among
\* its first min(100, rowCount) rows are strictly more than 70% of that
\* sample: 10 * numericCount > 7 * sampleSize.
C7_ThresholdExact ==
    (ChartsDone /\ arg.kind = "tall") =>
        ((ret.plans[1].type = "line")
            <=> (10 * NumericInSample(arg.n, arg.k, arg.atEnd) > 7 * Min(100, arg.n)))

----------------------------------------------------------------------------
(* C8 *)

\* The least s with s * 50 >= n: ceil(n / 50).
CeilOver50(n) == CHOOSE x \in 1..n : x * 50 >= n /\ (x - 1) * 50 < n

IsSampleOf(shown, labels, values, s) ==
    /\ Len(shown) = Cardinality({i \in 0..(Len(values) - 1) : i % s = 0})
    /\ Len(labels) = Len(shown)
    /\ \A j \in 1..Len(shown) :
          /\ shown[j] = values[(j - 1) * s + 1]
          /\ labels[j] = <<"#", (j - 1) * s + 1>>

\* C8: a line chart of a series of n values shows all of them, labelled #1 to
\* #n, when n <= 50; when n > 50 it shows exactly the values at the 0-based
\* positions 0, s, 2s, ... below n with s = ceil(n / 50), in their order, each
\* labelled with its 1-based position, and at most 50 of them.
C8_Downsample ==
    (ChartsDone /\ arg.kind = "tall" /\ ret.plans[1].type = "line") =>
        /\ Len(ret.plans[1].values) = arg.n
        /\ \A c \in charts :
              IF arg.n <= 50
              THEN IsSampleOf(c.chart.data, c.chart.labels, ret.plans[1].values, 1)
              ELSE /\ IsSampleOf(c.chart.data, c.chart.labels, ret.plans[1].values,
                                 CeilOver50(arg.n))
                   /\ Len(c.chart.data) <= 50

\* A series of 120 values, all of them distinct, has been drawn with stride
\* 3: 40 points, the second of them the value of position #4.
C8_Witness ==
    /\ ChartsDone /\ arg.kind = "tall" /\ arg.n = 120 /\ arg.k = 120
    /\ \E c \in charts :
          /\ Len(c.chart.data) = 40
          /\ c.chart.labels[2] = <<"#", 4>>
          /\ c.chart.data[2] = Num(<<"4">>)
          /\ c.chart.data[40] = Num(<<"1", "1", "8">>)

----------------------------------------------------------------------------
(* C9 *)

CellCategory(data, r) == IF data[r][1] = <<>> THEN Unknown ELSE data[r][1]

FirstRowOf(data, c) ==
    CHOOSE r \in 1..Len(data) :
        CellCategory(data, r) = c /\ \A m \in 1..(r - 1) : CellCategory(data, m) # c

RowsOf(data, c) == Cardinality({r \in 1..Len(data) : CellCategory(data, r) = c})

\* a comes before b: a higher count, or the same count and met first.
RanksBefore(data, a, b) ==
    \/ RowsOf(data, a) > RowsOf(data, b)
    \/ RowsOf(data, a) = RowsOf(data, b) /\ FirstRowOf(data, a) < FirstRowOf(data, b)

IsTopCategories(sel, data, cats) ==
    /\ Len(sel) = Min(10, Cardinality(cats))
    /\ \A j \in 1..Len(sel) :
          /\ sel[j][1] \in cats
          /\ sel[j][2] = RowsOf(data, sel[j][1])
          /\ \A i \in 1..(j - 1) : RanksBefore(data, sel[i][1], sel[j][1])
          /\ \A c \in cats \ {sel[i][1] : i \in 1..Len(sel)} :
                RanksBefore(data, sel[j][1], c)

\* C9: the categories of the category chart are the (at most 10) distinct
\* cell values of the category column with the highest counts, by descending
\* count, and among equal counts in the order they were first met in the
\* rows, whatever the values are.
C9_TieOrder ==
    (ChartsDone /\ arg.kind \in {"tall", "small", "cell"}
        /\ Len(ret.plans) = 1 /\ ret.plans[1].type = "bar") =>
        IsTopCategories(ret.plans[1].sortedCategories, arg.data,
                        {CellCategory(arg.data, r) : r \in 1..Len(arg.data)})

----------------------------------------------------------------------------
(* C10 *)

\* The cell is a decimal literal followed by at least one character that
\* does not continue it.
HasNumericPrefixOnly(cell) ==
    \E k \in 1..(Len(cell) - 1) :
        /\ IsDecimalLiteral(SubSeq(cell, 1, k))
        /\ \A m \in (k + 1)..Len(cell) : ~IsDecimalLiteral(SubSeq(cell, 1, m))

CountedNumeric == ret.plans[1].type = "line"

\* C10 as the specification states it: a cell that is a numeric prefix
\* followed by other characters is counted as numeric.
C10_PrefixCounted ==
    (ChartsDone /\ arg.kind = "cell" /\ HasNumericPrefixOnly(arg.data[1][1])) =>
        CountedNumeric

\* C10 as the code has it: a cell that is a numeric prefix followed by other
\* characters is not counted as numeric; a cell is counted when its whole
\* text is a decimal literal of a finite value.
C10_PrefixNotCounted ==
    (ChartsDone /\ arg.kind = "cell") =>
        /\ HasNumericPrefixOnly(arg.data[1][1]) => ~CountedNumeric
        /\ CountedNumeric => IsDecimalLiteral(arg.data[1][1])

\* The one-cell column "3abc" has been classified, and not as numeric.
C10_Witness ==
    /\ ChartsDone /\ arg.kind = "cell"
    /\ arg.data = << << <<"3", "a", "b", "c">> >> >>
    /\ ~CountedNumeric

=============================================================================
